---- MODULE Spec2Model ----
(***************************************************************************)
(* Model of the AQI updater: the fetch pipeline (AqiFetcher), the sampling *)
(* pipeline (AqiUpdater) and the poll loop of aqi_updater_app.py.          *)
(*                                                                         *)
(* File names are sequences of tokens, e.g. <<"aqi_", "2019-11-08T11",     *)
(* ".tif">> for 'aqi_2019-11-08T11.tif'; the empty string is <<>>.  A      *)
(* token stands for the characters it spells, so Python's slicing,         *)
(* replace(), endswith() and `in` are computed on the tokens and their     *)
(* lengths.  Raster cell values are integers in hundredths (1.12 = 112).   *)
(***************************************************************************)
EXTENDS Integers, Sequences, FiniteSets, TLC

\* ---------------------------------------------------------------- bounds
MaxHour == 1        \* UTC hours 0..MaxHour pass while the process runs
MaxMembers == 2     \* members of a downloaded archive
MaxDenied == 1      \* os.remove calls refused on an existing file
MaxTempDenied == 0  \* of these, on temporary files in one finish_aqi_fetch()
MaxCalls == 3       \* operations a client calls by itself
MaxEdges == 2       \* edges of the routing graph

\* ------------------------------------------------------- program constants
NodataFloor == 180000
NaVal == 100
Offsets == <<0, 1, 2, 4, 6, 8, 10, 12>>

\* ----------------------------------------------------------------- names
Hours == 0..MaxHour

\* datetime.utcnow().strftime('%Y-%m-%dT%H') at clock value h
HourKey(h) == "2019-11-08T" \o ToString(10 + h)

TokLen(t) ==
  CASE t = ".nc" -> 3
    [] t \in {".zip", ".tif", ".csv", ".txt", "aqi_"} -> 4
    [] t = "readme" -> 6
    [] t = "allPollutants_" -> 14
    [] OTHER -> 13      \* an hour key, or "allPollutants"

\* s[:-n] for a cut that falls between two tokens
RECURSIVE DropLastChars(_, _)
DropLastChars(s, n) ==
  IF n <= 0 \/ s = <<>> THEN s
  ELSE DropLastChars(SubSeq(s, 1, Len(s) - 1), n - TokLen(s[Len(s)]))

\* s[-n:] for a cut that falls between two tokens
RECURSIVE TakeLastChars(_, _)
TakeLastChars(s, n) ==
  IF n <= 0 \/ s = <<>> THEN <<>>
  ELSE TakeLastChars(SubSeq(s, 1, Len(s) - 1), n - TokLen(s[Len(s)]))
         \o <<s[Len(s)]>>

\* s.endswith(ext)
EndsWith(s, ext) == s # <<>> /\ s[Len(s)] = ext

\* ('allPollutants' in s)
ContainsAllPollutants(s) ==
  \E i \in 1..Len(s) : s[i] \in {"allPollutants_", "allPollutants"}

get_current_aqi_tif_name(h) == <<"aqi_", HourKey(h), ".tif">>

get_aqi_csv_name(aqi_tif_name) ==
  [i \in 1..Len(aqi_tif_name) |->
     IF aqi_tif_name[i] = ".tif" THEN ".csv" ELSE aqi_tif_name[i]]

\* 'aqi_' + aqi_nc_name[:-3][-13:] + '.tif'
tif_name_of_nc(aqi_nc_name) ==
  <<"aqi_">> \o TakeLastChars(DropLastChars(aqi_nc_name, 3), 13) \o <<".tif">>

AqiMapJson == <<"aqi_map", ".json">>

\* what the object store may hold in an archive
MemberNames ==
  { <<"allPollutants_", HourKey(h), ".nc">> : h \in Hours }
    \cup { <<"readme", ".txt">> }

Archives == UNION { [1..n -> MemberNames] : n \in 0..MaxMembers }

\* ------------------------------------------------------------ raster band
BandValues == {100, 104, 112, 113}
CellCounts == {0, 180000, 180001}
Bands == [BandValues -> CellCounts]

RECURSIVE SumCounts(_, _)
SumCounts(band, vs) ==
  IF vs = {} THEN 0
  ELSE LET v == CHOOSE w \in vs : TRUE
       IN  band[v] + SumCounts(band, vs \ {v})

\* np.sum(aqi_band <= na_offset)
NodataCount(band, na_offset) ==
  SumCounts(band, {v \in BandValues : v <= na_offset})

\* the offset loop stopping as soon as the count reaches the floor
RECURSIVE nodata_offset_search_at_floor(_, _)
nodata_offset_search_at_floor(band, i) ==
  LET na_offset == NaVal + Offsets[i]
      nodata_count == NodataCount(band, na_offset)
  IN  IF nodata_count >= NodataFloor \/ i = Len(Offsets)
        THEN [na_offset |-> na_offset, nodata_count |-> nodata_count]
        ELSE nodata_offset_search_at_floor(band, i + 1)

\* the offset loop of __fillna_in_raster
RECURSIVE nodata_offset_search(_, _)
nodata_offset_search(band, i) ==
  LET na_offset == NaVal + Offsets[i]
      nodata_count == NodataCount(band, na_offset)
  IN  IF nodata_count > NodataFloor \/ i = Len(Offsets)
        THEN [na_offset |-> na_offset, nodata_count |-> nodata_count]
        ELSE nodata_offset_search(band, i + 1)

Range(list) == { list[i] : i \in 1..Len(list) }

\* ------------------------------------------------------- routing graph
\* An edge of the graph: its id_ig is its position in the graph, id_way is
\* a way-grouping id or NoWay, geom is a line with a midpoint or not a line.
\* Coordinates are integers in units of 1e-8 degree.
WayIds == {"w1", "w2"}
NoWay == "nan"
Midpoints == {0, 4, 100}
NotALine == [is_line |-> FALSE, midpoint |-> 0]
Geoms == {NotALine} \cup { [is_line |-> TRUE, midpoint |-> p] : p \in Midpoints }
Edges == [id_way : WayIds \cup {NoWay}, geom : Geoms]
Graphs == UNION { [1..n -> Edges] : n \in 0..MaxEdges }

\* graph/kumpula.graphml, the graph the poll loop loads
KumpulaGraph ==
  <<[id_way |-> "w1", geom |-> [is_line |-> TRUE, midpoint |-> 0]],
    [id_way |-> "w1", geom |-> [is_line |-> TRUE, midpoint |-> 100]]>>

\* round(x, digits) of a coordinate, for digits below 8; no tie occurs
RoundCoord(x, digits) ==
  LET unit == IF digits = 7 THEN 10 ELSE 100
  IN  ((x + unit \div 2) \div unit) * unit

\* ig_utils.get_edge_gdf(graph, attrs=[E.id_ig, E.id_way], geom_attr=E.geom_wgs)
get_edge_gdf(graph) ==
  [i \in 1..Len(graph) |->
     [id_ig |-> i, id_way |-> graph[i].id_way, geom_wgs |-> graph[i].geom]]

\* df[df[col].apply(pred)] and df[df[col].notnull()]: the rows kept, in order
RECURSIVE FilterRows(_, _)
FilterRows(df, keep) ==
  IF df = <<>> THEN <<>>
  ELSE (IF Head(df) \in keep THEN <<Head(df)>> ELSE <<>>)
         \o FilterRows(Tail(df), keep)

get_sampling_point_gdf_from_graph(graph) ==
  LET edge_gdf == get_edge_gdf(graph)
      lines == FilterRows(edge_gdf,
                 { r \in Range(edge_gdf) : r.geom_wgs.is_line })
  IN  [i \in 1..Len(lines) |->
         [id_ig |-> lines[i].id_ig, id_way |-> lines[i].id_way,
          point_geom |-> lines[i].geom_wgs.midpoint]]

\* as drop_duplicates, keeping every row
keep_duplicates(df) == df

\* df.drop_duplicates(E.id_way.name): the first row of each id_way is kept,
\* missing values counting as equal
drop_duplicates(df) ==
  LET first == { i \in 1..Len(df) :
                   \A j \in 1..(i - 1) : df[j].id_way # df[i].id_way }
  IN  FilterRows(df, { df[i] : i \in first })

\* ------------------------------------------------------------ AQI values
\* a sampled value: a number in hundredths, nan or inf
Num(v) == [kind |-> "num", v |-> v]
NaN == [kind |-> "nan", v |-> 0]
Inf == [kind |-> "inf", v |-> 0]
isfinite(aqi) == aqi.kind = "num"
notnull(aqi) == aqi.kind # "nan"
SampledValues == {NaN, Inf} \cup { Num(v) : v \in {94, 95, 99, 100, 499} }

\* the raster cells the midpoints fall in, and the rasters a file may hold
Cells == { RoundCoord(p, 6) : p \in Midpoints }
Rasters == [Cells -> SampledValues]

\* as get_valid_aqi_or_nan, with `aqi <= 0.95` for the lower limit
get_valid_aqi_or_nan_above_limit(aqi) ==
  IF isfinite(aqi)
    THEN IF aqi.v <= 95 THEN NaN
         ELSE IF aqi.v < 100 THEN Num(100)
         ELSE aqi
    ELSE NaN

get_valid_aqi_or_nan(aqi) ==
  IF isfinite(aqi)
    THEN IF aqi.v < 95 THEN NaN
         ELSE IF aqi.v < 100 THEN Num(100)
         ELSE aqi
    ELSE NaN

\* floor(aqi * 2) if np.isfinite(aqi) else 0
get_aqi_class(aqi) == IF isfinite(aqi) THEN (aqi.v * 2) \div 100 ELSE 0

\* ------------------------------------------------------------------ state
VARIABLES
  hour,              \* the UTC clock, in hours
  pc,                \* the statement the thread executes next
  wip_aqi_tif, latest_aqi_tif, temp_files_to_rm, fetcher_status,
  aqi_dir,           \* cache directory: file name -> kind of content
  enfuser_data_key, aqi_zip_name, aqi_nc_name, aqi_tif_name,
  wip_aqi_csv, latest_aqi_csv, updater_status,
  aqi_updates,       \* output directory: file name -> content
  update_arg,        \* the argument of create_aqi_update_csv
  graph,             \* the routing graph the process loaded
  edge_gdf, sampling_gdf,
  edge_aqi_df,       \* the sampled points of the running update
  id_aqi_pairs,      \* the pairs it wrote to aqi_map.json
  final_sample_df,   \* its joined table, before the null filter
  final_edge_aqi_samples,  \* the table it exports
  denials,           \* os.remove calls refused so far
  fetch_outcome,     \* how the last fetch_process_current_aqi_data() went
  fetch_raised_in,   \* the step that raised, until the finally block ran
  fetch_this_hour,   \* the last fetch ended, and the hour has not changed
  latest_before,     \* latest_aqi_tif when the running fetch was invoked
  floor_missed,      \* the offset loop ended with nodata_count < 180000
  aqi_band, na_offset, aqi_nodata_mask,  \* of the last __fillna_in_raster
  update_outcome,    \* how the last create_aqi_update_csv() went
  update_raised_in,  \* the step that raised, until the finally block ran
  csv_before,        \* latest_aqi_csv when the running update was invoked
  unfinished,        \* pipelines invoked and not yet followed by finish_*
  last_op,           \* the last public operation that ended, and how
  calls              \* operations the client has called

fetcher_fields == <<wip_aqi_tif, latest_aqi_tif, temp_files_to_rm,
                    fetcher_status, aqi_dir>>
fetch_locals == <<enfuser_data_key, aqi_zip_name, aqi_nc_name, aqi_tif_name>>
fetcher_vars == <<fetcher_fields, fetch_locals>>
sampling_gdfs == <<graph, edge_gdf, sampling_gdf>>
update_locals == <<edge_aqi_df, id_aqi_pairs, final_sample_df,
                   final_edge_aqi_samples>>
updater_vars == <<wip_aqi_csv, latest_aqi_csv, updater_status, aqi_updates,
                  update_arg, sampling_gdfs, update_locals>>
fillna_locals == <<aqi_band, na_offset, aqi_nodata_mask>>
fetch_obs == <<fetch_outcome, fetch_raised_in, fetch_this_hour, latest_before,
               floor_missed, fillna_locals>>
update_obs == <<update_outcome, update_raised_in, csv_before>>
env == <<hour, denials, calls>>
vars == <<pc, env, fetcher_vars, updater_vars, fetch_obs, update_obs,
          unfinished, last_op>>

\* content of a raster file: "filled" once the nodata repair has written it,
\* "unfilled" when it was only converted or a write of it failed part-way
NoFile == [n \in {} |-> "unfilled"]

\* again: the operation that ended before this one was the same, and
\* neither raised nor failed to remove a file
Ended(op, raised, rm_failed) ==
  [op |-> op, raised |-> raised, rm_failed |-> rm_failed,
   again |-> last_op.op = op /\ ~last_op.raised /\ ~last_op.rm_failed,
   logged |-> FALSE]

\* AqiFetcher(log) and AqiUpdater(log, graph) for the loaded graph
InitState ==
  /\ hour = 0 /\ denials = 0 /\ calls = 0
  /\ wip_aqi_tif = <<>> /\ latest_aqi_tif = <<>>
  /\ temp_files_to_rm = <<>> /\ fetcher_status = <<>>
  /\ enfuser_data_key = <<>> /\ aqi_zip_name = <<>>
  /\ aqi_nc_name = <<>> /\ aqi_tif_name = <<>>
  /\ wip_aqi_csv = <<>> /\ latest_aqi_csv = <<>>
  /\ updater_status = <<>> /\ aqi_updates = NoFile
  /\ update_arg = <<>>
  /\ edge_gdf = get_sampling_point_gdf_from_graph(graph)
  /\ sampling_gdf = drop_duplicates(get_sampling_point_gdf_from_graph(graph))
  /\ edge_aqi_df = <<>> /\ id_aqi_pairs = <<>>
  /\ final_sample_df = <<>> /\ final_edge_aqi_samples = <<>>
  /\ fetch_outcome = "none" /\ fetch_raised_in = "" /\ fetch_this_hour = FALSE
  /\ latest_before = <<>> /\ floor_missed = FALSE
  /\ na_offset = 0 /\ aqi_nodata_mask = <<>>
  /\ update_outcome = "none" /\ update_raised_in = "" /\ csv_before = <<>>
  /\ unfinished = {}
  /\ last_op = [op |-> "none", raised |-> FALSE, rm_failed |-> FALSE,
                again |-> FALSE, logged |-> FALSE]

\* aqi_updater_app.py: the process enters the poll loop
Init ==
  /\ graph = KumpulaGraph
  /\ aqi_dir = NoFile
  /\ aqi_band = <<>>
  /\ InitState
  /\ pc = "new_aqi_available"

\* tests/aqi_updater_test.py: a client calls the public operations itself
InitApi ==
  /\ graph = KumpulaGraph
  /\ aqi_dir = NoFile
  /\ aqi_band = <<>>
  /\ InitState
  /\ pc = "idle"

\* where control goes when an operation ends: the next statement of the
\* poll loop, or back to the calling client
Continue(d, app_next) == IF d = "app" THEN app_next ELSE "idle"

WithFiles(dir, names, content) ==
  [f \in DOMAIN dir \cup names |-> IF f \in names THEN content ELSE dir[f]]

Without(dir, names) == [f \in DOMAIN dir \ names |-> dir[f]]

\* ------------------------------------------------------------- the clock
\* The clock is read by new_aqi_available, __get_current_aqi_tif_name and
\* __get_current_enfuser_key_filename only: an hour that passes anywhere
\* else is seen as one that passes before the next of these, or during the
\* download.
ClockAdvance ==
  /\ pc \in {"idle", "new_aqi_available", "fetch_process_current_aqi_data",
             "get_current_enfuser_key_filename", "fetch_enfuser_data"}
  /\ hour < MaxHour
  /\ hour' = hour + 1
  /\ fetch_this_hour' = FALSE
  /\ UNCHANGED <<pc, denials, calls, fetcher_vars, updater_vars,
                 fetch_outcome, fetch_raised_in, latest_before, floor_missed,
                 fillna_locals,
                 update_obs, unfinished, last_op>>

\* ------------------------------------------------------------ AqiFetcher
\* as new_aqi_available, logging the status at every call
new_aqi_available_always_logging(d) ==
  /\ pc = "new_aqi_available"
  /\ LET current_aqi_tif == get_current_aqi_tif_name(hour)
         b_available == latest_aqi_tif # current_aqi_tif
         status == IF b_available
                     THEN <<"new AQI data available: ">> \o current_aqi_tif
                     ELSE <<"latest AQI data already fetched">>
     IN  /\ fetcher_status' = status
         /\ pc' = IF b_available
                    THEN Continue(d, "fetch_process_current_aqi_data")
                    ELSE Continue(d, "new_update_available")
         /\ last_op' = [Ended("new_aqi_available", FALSE, FALSE)
                          EXCEPT !.logged = TRUE]
  /\ UNCHANGED <<env, wip_aqi_tif, latest_aqi_tif, temp_files_to_rm, aqi_dir,
                 fetch_locals, updater_vars, fetch_obs, update_obs, unfinished>>

new_aqi_available(d) ==
  /\ pc = "new_aqi_available"
  /\ LET current_aqi_tif == get_current_aqi_tif_name(hour)
         b_available == latest_aqi_tif # current_aqi_tif
         status == IF b_available
                     THEN <<"new AQI data available: ">> \o current_aqi_tif
                     ELSE <<"latest AQI data already fetched">>
     IN  /\ fetcher_status' = status
         /\ pc' = IF b_available
                    THEN Continue(d, "fetch_process_current_aqi_data")
                    ELSE Continue(d, "new_update_available")
         /\ last_op' = [Ended("new_aqi_available", FALSE, FALSE)
                          EXCEPT !.logged = (fetcher_status # status)]
  /\ UNCHANGED <<env, wip_aqi_tif, latest_aqi_tif, temp_files_to_rm, aqi_dir,
                 fetch_locals, updater_vars, fetch_obs, update_obs, unfinished>>

\* as fetch_raises, in a poll loop whose try has no finally clause
fetch_raises_without_finally(d, step) ==
  /\ pc' = Continue(d, "new_update_available")
  /\ fetch_outcome' = "raised"
  /\ fetch_raised_in' = step
  /\ fetch_this_hour' = TRUE
  /\ enfuser_data_key' = <<>> /\ aqi_zip_name' = <<>>
  /\ aqi_nc_name' = <<>> /\ aqi_tif_name' = <<>>
  /\ last_op' = Ended("fetch_process_current_aqi_data", TRUE, FALSE)
  /\ UNCHANGED latest_before

\* fetch_process_current_aqi_data() leaves by an exception raised in `step`
fetch_raises(d, step) ==
  /\ pc' = Continue(d, "finish_aqi_fetch")
  /\ fetch_outcome' = "raised"
  /\ fetch_raised_in' = step
  /\ fetch_this_hour' = TRUE
  /\ enfuser_data_key' = <<>> /\ aqi_zip_name' = <<>>
  /\ aqi_nc_name' = <<>> /\ aqi_tif_name' = <<>>
  /\ last_op' = Ended("fetch_process_current_aqi_data", TRUE, FALSE)
  /\ UNCHANGED latest_before

set_wip_aqi_tif_name(d) ==
  /\ pc = "fetch_process_current_aqi_data"
  /\ wip_aqi_tif' = get_current_aqi_tif_name(hour)
  /\ pc' = "get_current_enfuser_key_filename"
  /\ fetch_outcome' = "running"
  /\ fetch_raised_in' = ""
  /\ fetch_this_hour' = FALSE
  /\ latest_before' = latest_aqi_tif
  /\ floor_missed' = FALSE
  /\ aqi_band' = <<>> /\ na_offset' = 0 /\ aqi_nodata_mask' = <<>>
  /\ unfinished' = unfinished \cup {"fetch"}
  /\ UNCHANGED <<env, latest_aqi_tif, temp_files_to_rm, fetcher_status,
                 aqi_dir, fetch_locals, updater_vars, update_obs, last_op>>

get_current_enfuser_key_filename(d) ==
  /\ pc = "get_current_enfuser_key_filename"
  /\ enfuser_data_key' =
       <<"Finland/pks/", "allPollutants_", HourKey(hour), ".zip">>
  /\ aqi_zip_name' = <<"allPollutants_", HourKey(hour), ".zip">>
  /\ pc' = "fetch_enfuser_data"
  /\ UNCHANGED <<env, fetcher_fields, aqi_nc_name, aqi_tif_name,
                 updater_vars, fetch_obs, update_obs, unfinished, last_op>>

fetch_enfuser_data(d) ==
  /\ pc = "fetch_enfuser_data"
  /\ \/ /\ aqi_dir' = WithFiles(aqi_dir, {aqi_zip_name}, "zip")
        /\ temp_files_to_rm' = Append(temp_files_to_rm, aqi_zip_name)
        /\ pc' = "extract_zipped_aqi"
        /\ UNCHANGED <<fetch_locals, fetch_obs, last_op>>
     \/ /\ fetch_raises(d, "download")
        /\ UNCHANGED <<aqi_dir, temp_files_to_rm, floor_missed, fillna_locals>>
  /\ UNCHANGED <<env, wip_aqi_tif, latest_aqi_tif, fetcher_status,
                 updater_vars, update_obs, unfinished>>

\* the members the loop of __extract_zipped_aqi extracts among the first n
Extracted(names, n) ==
  { names[i] : i \in { j \in 1..n : ContainsAllPollutants(names[j]) } }

\* archive: the namelist of the zip the object store returned
extract_zipped_aqi(d) ==
  /\ pc = "extract_zipped_aqi"
  /\ \E archive \in Archives : \E n \in 0..Len(archive), ok \in BOOLEAN :
       LET matching == { i \in 1..Len(archive) :
                           ContainsAllPollutants(archive[i]) }
           last == CHOOSE i \in matching : \A j \in matching : j <= i
       IN  \* ok: every member was read; otherwise opening the archive
           \* (n = 0) or extracting member n + 1 failed
           /\ ok => n = Len(archive)
           /\ ~ok => n = 0 \/ (n + 1) \in matching
           /\ aqi_dir' = WithFiles(aqi_dir, Extracted(archive, n), "nc")
           /\ IF ok /\ matching # {}
                THEN /\ aqi_nc_name' = archive[last]
                     /\ temp_files_to_rm' =
                          Append(temp_files_to_rm, archive[last])
                     /\ pc' = "convert_aqi_nc_to_raster"
                     /\ UNCHANGED <<enfuser_data_key, aqi_zip_name,
                                    aqi_tif_name, fetch_obs, last_op>>
                ELSE /\ fetch_raises(d, "extract")
                     /\ UNCHANGED <<temp_files_to_rm, floor_missed, fillna_locals>>
  /\ UNCHANGED <<env, wip_aqi_tif, latest_aqi_tif, fetcher_status,
                 updater_vars, update_obs, unfinished>>

convert_aqi_nc_to_raster(d) ==
  /\ pc = "convert_aqi_nc_to_raster"
  /\ LET name == tif_name_of_nc(aqi_nc_name)
     IN  \/ /\ aqi_dir' = WithFiles(aqi_dir, {name}, "unfilled")
            /\ latest_aqi_tif' = name
            /\ aqi_tif_name' = name
            /\ pc' = "fillna_in_raster"
            /\ UNCHANGED <<enfuser_data_key, aqi_zip_name, aqi_nc_name,
                           fetch_obs, last_op>>
         \/ \* the array file cannot be decoded
            /\ fetch_raises(d, "convert")
            /\ UNCHANGED <<aqi_dir, latest_aqi_tif, floor_missed,
                           fillna_locals>>
         \/ \* writing the raster fails part-way
            /\ fetch_raises(d, "convert")
            /\ aqi_dir' = WithFiles(aqi_dir, {name}, "unfilled")
            /\ UNCHANGED <<latest_aqi_tif, floor_missed, fillna_locals>>
  /\ UNCHANGED <<env, wip_aqi_tif, temp_files_to_rm, fetcher_status,
                 updater_vars, update_obs, unfinished>>

\* Logger.info(self, text) called with n_args positional arguments
log_info_accepts(n_args) == n_args = 1

\* np.where(aqi_band <= na_offset, 0, aqi_band), for each value of the band
nodata_mask(band, threshold) ==
  [v \in DOMAIN band |-> IF v <= threshold THEN 0 ELSE v]

\* __fillna_in_raster
fillna_in_raster(d) ==
  /\ pc = "fillna_in_raster"
  /\ \/ \* the raster cannot be opened or read
        /\ fetch_raises(d, "fillna_read")
        /\ UNCHANGED <<aqi_dir, latest_aqi_tif, floor_missed>>
     \/ \E missed \in { nodata_offset_search(aqi_band_read, 1).nodata_count
                            < NodataFloor : aqi_band_read \in Bands },
           written \in BOOLEAN :
              /\ floor_missed' = missed
              /\ IF missed /\ ~log_info_accepts(2)
                   THEN \* line 215 passes two arguments to log.info
                        /\ fetch_raises(d, "fillna_floor")
                        /\ UNCHANGED <<aqi_dir, latest_aqi_tif>>
                   ELSE IF written
                   THEN /\ aqi_dir' =
                             WithFiles(aqi_dir, {aqi_tif_name}, "filled")
                        /\ latest_aqi_tif' = aqi_tif_name
                        /\ pc' = Continue(d, "finish_aqi_fetch")
                        /\ fetch_outcome' = "ok"
                        /\ fetch_this_hour' = TRUE
                        /\ enfuser_data_key' = <<>> /\ aqi_zip_name' = <<>>
                        /\ aqi_nc_name' = <<>> /\ aqi_tif_name' = <<>>
                        /\ last_op' = Ended("fetch_process_current_aqi_data",
                                            FALSE, FALSE)
                        /\ UNCHANGED <<fetch_raised_in, latest_before>>
                   ELSE \* the filled band cannot be written
                        /\ fetch_raises(d, "fillna_write")
                        /\ aqi_dir' =
                             WithFiles(aqi_dir, {aqi_tif_name}, "unfilled")
                        /\ UNCHANGED latest_aqi_tif
  /\ UNCHANGED <<env, wip_aqi_tif, temp_files_to_rm, fetcher_status,
                 updater_vars, update_obs, unfinished, fillna_locals>>

\* __remove_temp_files: os.remove fails on a missing or a protected file
RECURSIVE remove_temp_files(_, _, _)
remove_temp_files(list, dir, denied) ==
  IF list = <<>> THEN [dir |-> dir, not_removed |-> <<>>]
  ELSE LET rm_filename == Head(list)
           removable == rm_filename \in DOMAIN dir /\ rm_filename \notin denied
           rest == remove_temp_files(Tail(list),
                     IF removable THEN Without(dir, {rm_filename}) ELSE dir,
                     denied)
       IN  [dir |-> rest.dir,
            not_removed |-> IF removable THEN rest.not_removed
                            ELSE <<rm_filename>> \o rest.not_removed]

\* as remove_old_aqi_files, keeping the raster in progress instead of the
\* latest one
remove_old_aqi_files_keeping_wip(dir, latest, denied) ==
  LET old == { file_n \in DOMAIN dir :
                 EndsWith(file_n, ".tif") /\ file_n # wip_aqi_tif }
  IN  [dir |-> Without(dir, old \ denied),
       error_count |-> Cardinality(old \cap denied)]

\* __remove_old_aqi_files
remove_old_aqi_files(dir, latest, denied) ==
  LET old == { file_n \in DOMAIN dir :
                 EndsWith(file_n, ".tif") /\ file_n # latest }
  IN  [dir |-> Without(dir, old \ denied),
       error_count |-> Cardinality(old \cap denied)]

\* denied: the files os.remove refuses to remove during this call
finish_aqi_fetch(d) ==
  /\ pc = "finish_aqi_fetch"
  /\ \E denied \in SUBSET DOMAIN aqi_dir :
       LET temp == remove_temp_files(temp_files_to_rm, aqi_dir, denied)
           old == remove_old_aqi_files(temp.dir, latest_aqi_tif, denied)
           tried == Range(temp_files_to_rm) \cup
                      { file_n \in DOMAIN aqi_dir :
                          EndsWith(file_n, ".tif") /\ file_n # latest_aqi_tif }
           temp_denied == denied \cap Range(temp_files_to_rm)
           \* 'Could not remove ' + error_count + ...: str + int raises
           raises == old.error_count > 0
           rm_failed == temp.not_removed # <<>> \/ old.error_count > 0
       IN  /\ denied \subseteq tried
           /\ Cardinality(temp_denied) <= MaxTempDenied
           /\ denials + Cardinality(denied) <= MaxDenied
           /\ denials' = denials + Cardinality(denied)
           /\ temp_files_to_rm' = temp.not_removed
           /\ aqi_dir' = old.dir
           /\ wip_aqi_tif' = IF raises THEN wip_aqi_tif ELSE <<>>
           /\ pc' = IF raises THEN Continue(d, "terminated")
                    ELSE Continue(d, "new_update_available")
           /\ last_op' = Ended("finish_aqi_fetch", raises, rm_failed)
  /\ unfinished' = unfinished \ {"fetch"}
  /\ fetch_raised_in' = ""
  /\ latest_before' = <<>>
  /\ floor_missed' = FALSE
  /\ aqi_band' = <<>> /\ na_offset' = 0 /\ aqi_nodata_mask' = <<>>
  /\ UNCHANGED <<hour, calls, latest_aqi_tif, fetcher_status, fetch_locals,
                 updater_vars, fetch_outcome, fetch_this_hour, update_obs>>

\* ------------------------------------------------------------ AqiUpdater
\* the raster name the caller passes: aqi_fetcher.latest_aqi_tif in the poll
\* loop, the client's own choice otherwise
Arg(d) == IF d = "app" THEN latest_aqi_tif ELSE update_arg

\* as new_update_available, judging freshness against the wall-clock hour
new_update_available_by_clock(d) ==
  /\ pc = "new_update_available"
  /\ LET latest_aqi_tif_name == get_current_aqi_tif_name(hour)
         b_available == latest_aqi_csv # get_aqi_csv_name(latest_aqi_tif_name)
         status == IF b_available
                     THEN <<"New AQI update available: ">> \o latest_aqi_tif_name
                     ELSE <<"Latest AQI update already done">>
     IN  /\ updater_status' = status
         /\ pc' = IF b_available THEN Continue(d, "create_aqi_update_csv")
                    ELSE Continue(d, "sleep")
         /\ last_op' = [Ended("new_update_available", FALSE, FALSE)
                          EXCEPT !.logged = (updater_status # status)]
  /\ UNCHANGED <<env, fetcher_vars, wip_aqi_csv, latest_aqi_csv, aqi_updates,
                 update_arg, sampling_gdfs, update_locals, fetch_obs,
                 update_obs, unfinished>>

new_update_available(d) ==
  /\ pc = "new_update_available"
  /\ LET latest_aqi_tif_name == Arg(d)
         b_available == latest_aqi_csv # get_aqi_csv_name(latest_aqi_tif_name)
         status == IF b_available
                     THEN <<"New AQI update available: ">> \o latest_aqi_tif_name
                     ELSE <<"Latest AQI update already done">>
     IN  /\ updater_status' = status
         /\ pc' = IF b_available THEN Continue(d, "create_aqi_update_csv")
                    ELSE Continue(d, "sleep")
         /\ last_op' = [Ended("new_update_available", FALSE, FALSE)
                          EXCEPT !.logged = (updater_status # status)]
  /\ UNCHANGED <<env, fetcher_vars, wip_aqi_csv, latest_aqi_csv, aqi_updates,
                 update_arg, sampling_gdfs, update_locals, fetch_obs,
                 update_obs, unfinished>>

\* create_aqi_update_csv() leaves by an exception raised in `step`
update_raises(d, step) ==
  /\ pc' = Continue(d, "finish_aqi_update")
  /\ update_outcome' = "raised"
  /\ update_raised_in' = step
  /\ last_op' = Ended("create_aqi_update_csv", TRUE, FALSE)

\* as set_wip_aqi_csv, assigning the name to latest_aqi_csv as well
set_wip_aqi_csv_and_latest(d) ==
  /\ pc = "create_aqi_update_csv"
  /\ update_arg' = Arg(d)
  /\ wip_aqi_csv' = get_aqi_csv_name(Arg(d))
  /\ latest_aqi_csv' = get_aqi_csv_name(Arg(d))
  /\ pc' = "sample_aqi_to_point_gdf"
  /\ update_outcome' = "running"
  /\ update_raised_in' = ""
  /\ csv_before' = latest_aqi_csv
  /\ unfinished' = unfinished \cup {"update"}
  /\ edge_aqi_df' = <<>> /\ id_aqi_pairs' = <<>>
  /\ final_sample_df' = <<>> /\ final_edge_aqi_samples' = <<>>
  /\ UNCHANGED <<env, fetcher_vars, updater_status, aqi_updates,
                 sampling_gdfs, fetch_obs, last_op>>

set_wip_aqi_csv(d) ==
  /\ pc = "create_aqi_update_csv"
  /\ update_arg' = Arg(d)
  /\ wip_aqi_csv' = get_aqi_csv_name(Arg(d))
  /\ pc' = "sample_aqi_to_point_gdf"
  /\ update_outcome' = "running"
  /\ update_raised_in' = ""
  /\ csv_before' = latest_aqi_csv
  /\ unfinished' = unfinished \cup {"update"}
  /\ edge_aqi_df' = <<>> /\ id_aqi_pairs' = <<>>
  /\ final_sample_df' = <<>> /\ final_edge_aqi_samples' = <<>>
  /\ UNCHANGED <<env, fetcher_vars, latest_aqi_csv, updater_status,
                 aqi_updates, sampling_gdfs, fetch_obs, last_op>>

\* raster: the values the raster file holds at the cells sampled
sample_aqi_to_point_gdf(d) ==
  /\ pc = "sample_aqi_to_point_gdf"
  /\ \/ \* rasterio.open needs the file
        /\ update_arg \in DOMAIN aqi_dir
        /\ \E raster \in Rasters :
             edge_aqi_df' =
               [i \in 1..Len(sampling_gdf) |->
                  LET row == sampling_gdf[i]
                      coords == RoundCoord(row.point_geom, 6)
                  IN  [id_ig |-> row.id_ig, id_way |-> row.id_way,
                       point_geom |-> row.point_geom,
                       sampled |-> raster[coords],
                       aqi |-> get_valid_aqi_or_nan(raster[coords])]]
        /\ pc' = "export_aqi_map_json"
        /\ UNCHANGED <<update_outcome, update_raised_in, last_op>>
     \/ /\ update_raises(d, "sample")
        /\ UNCHANGED edge_aqi_df
  /\ UNCHANGED <<env, fetcher_vars, wip_aqi_csv, latest_aqi_csv,
                 updater_status, aqi_updates, update_arg, sampling_gdfs,
                 id_aqi_pairs, final_sample_df, final_edge_aqi_samples,
                 fetch_obs, csv_before, unfinished>>

\* the pairs __export_aqi_map_json dumps
aqi_map_pairs(sample_gdf) ==
  LET gdf == FilterRows(sample_gdf,
               { r \in Range(sample_gdf) : notnull(r.aqi) })
  IN  [i \in 1..Len(gdf) |-> <<gdf[i].id_way, get_aqi_class(gdf[i].aqi)>>]

export_aqi_map_json(d) ==
  /\ pc = "export_aqi_map_json"
  /\ \/ /\ aqi_updates' = WithFiles(aqi_updates, {AqiMapJson},
                             [from |-> update_arg, complete |-> TRUE])
        /\ id_aqi_pairs' = aqi_map_pairs(edge_aqi_df)
        /\ pc' = "to_csv"
        /\ UNCHANGED <<update_outcome, update_raised_in, last_op,
                       edge_aqi_df>>
     \/ \* open(..., 'w') fails
        /\ update_raises(d, "json")
        /\ edge_aqi_df' = <<>>
        /\ UNCHANGED <<aqi_updates, id_aqi_pairs>>
     \/ \* json.dump fails after the file was truncated
        /\ update_raises(d, "json")
        /\ edge_aqi_df' = <<>>
        /\ aqi_updates' = WithFiles(aqi_updates, {AqiMapJson},
                             [from |-> update_arg, complete |-> FALSE])
        /\ UNCHANGED id_aqi_pairs
  /\ UNCHANGED <<env, fetcher_vars, wip_aqi_csv, latest_aqi_csv,
                 updater_status, update_arg, sampling_gdfs,
                 final_sample_df, final_edge_aqi_samples, fetch_obs,
                 csv_before, unfinished>>

\* pd.merge(left, right, on=E.id_way.name, how='left'): a row for every
\* pair of a left row and a right row of the same id_way, missing values
\* matching each other, and a row without aqi for a left row with no match
RECURSIVE merge_left(_, _)
merge_left(left, right) ==
  IF left = <<>> THEN <<>>
  ELSE LET l == Head(left)
           matches == FilterRows(right,
                        { r \in Range(right) : r.id_way = l.id_way })
       IN  (IF matches = <<>>
              THEN <<[id_ig |-> l.id_ig, aqi |-> NaN]>>
              ELSE [k \in 1..Len(matches) |->
                      [id_ig |-> l.id_ig, aqi |-> matches[k].aqi]])
             \o merge_left(Tail(left), right)

\* __combine_final_sample_df and the export of its table
to_csv(d) ==
  /\ pc = "to_csv"
  /\ LET merged == merge_left(edge_gdf, edge_aqi_df)
         final == FilterRows(merged, { r \in Range(merged) : notnull(r.aqi) })
         raised == /\ edge_aqi_df' = <<>> /\ id_aqi_pairs' = <<>>
                   /\ final_sample_df' = <<>>
                   /\ final_edge_aqi_samples' = <<>>
     IN  IF Len(merged) = 0
           THEN \* len(final_sample_df)/sample_count_all divides by zero
                /\ update_raises(d, "combine")
                /\ raised
                /\ UNCHANGED aqi_updates
           ELSE \/ /\ aqi_updates' =
                        WithFiles(aqi_updates, {wip_aqi_csv},
                          [from |-> update_arg, complete |-> TRUE])
                   /\ final_sample_df' = merged
                   /\ final_edge_aqi_samples' = final
                   /\ pc' = "set_latest_aqi_csv"
                   /\ UNCHANGED <<update_outcome, update_raised_in, last_op,
                                  edge_aqi_df, id_aqi_pairs>>
                \/ \* the file cannot be created
                   /\ update_raises(d, "csv")
                   /\ raised
                   /\ UNCHANGED aqi_updates
                \/ \* the write fails part-way
                   /\ update_raises(d, "csv_partial")
                   /\ raised
                   /\ aqi_updates' =
                        WithFiles(aqi_updates, {wip_aqi_csv},
                          [from |-> update_arg, complete |-> FALSE])
  /\ UNCHANGED <<env, fetcher_vars, wip_aqi_csv, latest_aqi_csv,
                 updater_status, update_arg, sampling_gdfs, fetch_obs,
                 csv_before, unfinished>>

\* create_aqi_update_csv after the export: lines 57-58 and the return
set_latest_aqi_csv(d) ==
  /\ pc = "set_latest_aqi_csv"
  /\ latest_aqi_csv' = wip_aqi_csv
  /\ pc' = Continue(d, "finish_aqi_update")
  /\ update_outcome' = "ok"
  /\ last_op' = Ended("create_aqi_update_csv", FALSE, FALSE)
  /\ edge_aqi_df' = <<>> /\ id_aqi_pairs' = <<>>
  /\ final_sample_df' = <<>> /\ final_edge_aqi_samples' = <<>>
  /\ UNCHANGED <<env, fetcher_vars, wip_aqi_csv, updater_status, aqi_updates,
                 update_arg, sampling_gdfs, fetch_obs, update_raised_in,
                 csv_before, unfinished>>

\* as remove_old_update_files, without the test `file_n != latest_aqi_csv`
remove_old_update_files_all(dir, latest, denied) ==
  LET old == { file_n \in DOMAIN dir : EndsWith(file_n, ".csv") }
  IN  [dir |-> Without(dir, old \ denied),
       error_count |-> Cardinality(old \cap denied)]

\* __remove_old_update_files
remove_old_update_files(dir, latest, denied) ==
  LET old == { file_n \in DOMAIN dir :
                 EndsWith(file_n, ".csv") /\ file_n # latest }
  IN  [dir |-> Without(dir, old \ denied),
       error_count |-> Cardinality(old \cap denied)]

finish_aqi_update(d) ==
  /\ pc = "finish_aqi_update"
  /\ wip_aqi_csv' = <<>>
  /\ \E denied \in SUBSET DOMAIN aqi_updates :
       LET old == remove_old_update_files(aqi_updates, latest_aqi_csv, denied)
       IN  /\ old.error_count = Cardinality(denied)
           /\ denials + Cardinality(denied) <= MaxDenied
           /\ denials' = denials + Cardinality(denied)
           /\ aqi_updates' = old.dir
           /\ last_op' = Ended("finish_aqi_update", FALSE, old.error_count > 0)
  /\ pc' = Continue(d, "sleep")
  /\ unfinished' = unfinished \ {"update"}
  /\ csv_before' = <<>>
  /\ update_raised_in' = ""
  /\ edge_aqi_df' = <<>> /\ id_aqi_pairs' = <<>>
  /\ final_sample_df' = <<>> /\ final_edge_aqi_samples' = <<>>
  /\ UNCHANGED <<hour, calls, fetcher_vars, latest_aqi_csv, updater_status,
                 update_arg, sampling_gdfs, fetch_obs, update_outcome>>

\* ------------------------------------------------------------- poll loop
sleep ==
  /\ pc = "sleep"
  /\ pc' = "new_aqi_available"
  /\ UNCHANGED <<env, fetcher_vars, updater_vars, fetch_obs, update_obs,
                 unfinished, last_op>>

Next ==
  \/ ClockAdvance
  \/ new_aqi_available("app")
  \/ set_wip_aqi_tif_name("app")
  \/ get_current_enfuser_key_filename("app")
  \/ fetch_enfuser_data("app")
  \/ extract_zipped_aqi("app")
  \/ convert_aqi_nc_to_raster("app")
  \/ fillna_in_raster("app")
  \/ finish_aqi_fetch("app")
  \/ new_update_available("app")
  \/ set_wip_aqi_csv("app")
  \/ sample_aqi_to_point_gdf("app")
  \/ export_aqi_map_json("app")
  \/ to_csv("app")
  \/ set_latest_aqi_csv("app")
  \/ finish_aqi_update("app")
  \/ sleep

Spec == Init /\ [][Next]_vars

\* ---------------------------------------------------------------- client
PublicOps == {"new_aqi_available", "fetch_process_current_aqi_data",
              "finish_aqi_fetch", "new_update_available",
              "create_aqi_update_csv", "finish_aqi_update"}

ClientArgs == {latest_aqi_tif} \cup { get_current_aqi_tif_name(h) : h \in Hours }

ClientCall ==
  /\ pc = "idle"
  /\ calls < MaxCalls
  /\ calls' = calls + 1
  /\ \E op \in PublicOps, k \in ClientArgs :
       /\ pc' = op
       /\ update_arg' = IF op \in {"new_update_available", "create_aqi_update_csv"}
                          THEN k ELSE update_arg
  /\ UNCHANGED <<hour, denials, fetcher_vars, wip_aqi_csv, latest_aqi_csv,
                 updater_status, aqi_updates, sampling_gdfs, update_locals,
                 fetch_obs, update_obs, unfinished, last_op>>

NextApi ==
  \/ ClockAdvance
  \/ ClientCall
  \/ new_aqi_available("client")
  \/ set_wip_aqi_tif_name("client")
  \/ get_current_enfuser_key_filename("client")
  \/ fetch_enfuser_data("client")
  \/ extract_zipped_aqi("client")
  \/ convert_aqi_nc_to_raster("client")
  \/ fillna_in_raster("client")
  \/ finish_aqi_fetch("client")
  \/ new_update_available("client")
  \/ set_wip_aqi_csv("client")
  \/ sample_aqi_to_point_gdf("client")
  \/ export_aqi_map_json("client")
  \/ to_csv("client")
  \/ set_latest_aqi_csv("client")
  \/ finish_aqi_update("client")

SpecApi == InitApi /\ [][NextApi]_vars

\* ------------------------------------------------------------------ test
\* tests/aqi_updater_test.py: an AqiUpdater for a graph, with the raster of
\* test_data/, on which the test calls create_aqi_update_csv and then
\* finish_aqi_update
TestRaster == <<"aqi_", "2020-10-10T08", ".tif">>

InitTest ==
  /\ graph \in Graphs
  /\ aqi_dir = [file_n \in {TestRaster} |-> "filled"]
  /\ aqi_band = <<>>
  /\ InitState
  /\ pc = "idle"

TestCall ==
  /\ pc = "idle"
  /\ \/ /\ last_op.op = "none"
        /\ pc' = "create_aqi_update_csv"
     \/ /\ last_op.op = "create_aqi_update_csv" /\ ~last_op.raised
        /\ pc' = "finish_aqi_update"
  /\ update_arg' = TestRaster
  /\ calls' = calls + 1
  /\ UNCHANGED <<hour, denials, fetcher_vars, wip_aqi_csv, latest_aqi_csv,
                 updater_status, aqi_updates, sampling_gdfs, update_locals,
                 fetch_obs, update_obs, unfinished, last_op>>

NextTest ==
  \/ TestCall
  \/ set_wip_aqi_csv("client")
  \/ sample_aqi_to_point_gdf("client")
  \/ export_aqi_map_json("client")
  \/ to_csv("client")
  \/ set_latest_aqi_csv("client")
  \/ finish_aqi_update("client")

SpecTest == InitTest /\ [][NextTest]_vars

\* ------------------------------------------------ nodata mask of a band
\* __fillna_in_raster taken by itself, from the band read at line 202 to the
\* mask of line 217: aqi_band is any band a raster file may hold
InitFill ==
  /\ graph = KumpulaGraph
  /\ aqi_dir = NoFile
  /\ aqi_band \in Bands
  /\ InitState
  /\ pc = "fillna_band"

fillna_band ==
  /\ pc = "fillna_band"
  /\ LET found == nodata_offset_search(aqi_band, 1)
         missed == found.nodata_count < NodataFloor
     IN  /\ na_offset' = found.na_offset
         /\ floor_missed' = missed
         /\ IF missed /\ ~log_info_accepts(2)
              THEN \* line 215 raises before the mask is built
                   /\ aqi_nodata_mask' = <<>>
                   /\ pc' = "fillna_band_raised"
              ELSE /\ aqi_nodata_mask' = nodata_mask(aqi_band, found.na_offset)
                   /\ pc' = "fillna_band_masked"
  /\ UNCHANGED <<env, fetcher_vars, updater_vars, aqi_band, fetch_outcome,
                 fetch_raised_in, fetch_this_hour, latest_before, update_obs,
                 unfinished, last_op>>

NextFill == fillna_band

SpecFill == InitFill /\ [][NextFill]_vars

\* ================================================================ claims
CsvFiles(dir) == { file_n \in DOMAIN dir : EndsWith(file_n, ".csv") }

CleanFinish(op) ==
  last_op.op = op /\ ~last_op.raised /\ ~last_op.rm_failed

\* C1: when fetch_process_current_aqi_data() raises, at whichever step,
\* latest_aqi_tif is what it was before the attempt.
C1_RaisedFetchKeepsLatest ==
  (pc = "finish_aqi_fetch" /\ fetch_outcome = "raised")
    => latest_aqi_tif = latest_before

\* C2: a fetch that raised in the current hour is attempted again at the
\* next tick of that hour (new_aqi_available() is true), and an update that
\* raised for raster k is attempted again while k is the latest raster.
C2_FailedAttemptRetried ==
  /\ (pc = "new_aqi_available" /\ fetch_outcome = "raised" /\ fetch_this_hour)
       => latest_aqi_tif # get_current_aqi_tif_name(hour)
  /\ (pc = "new_update_available" /\ update_outcome = "raised"
        /\ latest_aqi_tif = update_arg)
       => latest_aqi_csv # get_aqi_csv_name(latest_aqi_tif)

\* C3: in the poll loop every call of fetch_process_current_aqi_data() is
\* followed by finish_aqi_fetch() and every call of create_aqi_update_csv()
\* by finish_aqi_update(), whether it returned or raised, before a
\* freshness check is evaluated again.
C3_FinishFollowsEveryCall ==
  /\ ("fetch" \in unfinished /\ fetch_outcome \in {"ok", "raised"})
       => pc = "finish_aqi_fetch"
  /\ ("update" \in unfinished /\ update_outcome \in {"ok", "raised"})
       => pc = "finish_aqi_update"
  /\ pc \in {"new_aqi_available", "new_update_available", "sleep"}
       => unfinished = {}

C3_Witness ==
  /\ pc = "new_update_available"
  /\ fetch_outcome = "raised"
  /\ last_op.op = "finish_aqi_fetch"

\* C4: a finish operation in which a file removal failed returns normally
\* and leaves the pipeline's wip name empty.
C4_RemovalFailureNotEscalated ==
  /\ (last_op.op = "finish_aqi_fetch" /\ last_op.rm_failed)
       => (~last_op.raised /\ wip_aqi_tif = <<>>)
  /\ (last_op.op = "finish_aqi_update" /\ last_op.rm_failed)
       => (~last_op.raised /\ wip_aqi_csv = <<>>)

\* C5: the poll loop never ends, whatever the external steps do.
C5_LoopNeverEnds == pc # "terminated"

\* C6: after a fetch that returned successfully in the current hour,
\* new_aqi_available() is false at the ticks of that hour.
C6_OneFetchPerHour ==
  (pc = "new_aqi_available" /\ fetch_outcome = "ok" /\ fetch_this_hour)
    => latest_aqi_tif = get_current_aqi_tif_name(hour)

\* C7: when no offset reaches the nodata floor the fetch still completes:
\* the filled band is written and the raster is recorded as latest.
C7_FloorMissedNotFatal ==
  (pc = "finish_aqi_fetch" /\ floor_missed)
    => /\ fetch_outcome = "ok"
       /\ latest_aqi_tif \in DOMAIN aqi_dir
       /\ aqi_dir[latest_aqi_tif] = "filled"

UpdateFinished ==
  /\ wip_aqi_csv' = <<>>
  /\ update_outcome = "ok" =>
       /\ latest_aqi_csv' = get_aqi_csv_name(update_arg)
       /\ CsvFiles(aqi_updates') = {latest_aqi_csv'}
  /\ update_outcome = "raised" =>
       /\ latest_aqi_csv' = csv_before
       /\ CsvFiles(aqi_updates') \subseteq {latest_aqi_csv'}

\* C9 as stated: after create_aqi_update_csv(k) and finish_aqi_update(),
\* wip_aqi_csv is empty, latest_aqi_csv is the csv name of k on success and
\* unchanged on failure, and no csv other than latest_aqi_csv is left.
C9_AsStated ==
  [][ (pc = "finish_aqi_update" /\ pc' # pc) => UpdateFinished ]_vars

\* C9 as amended: the same, when every removal of finish_aqi_update()
\* succeeds; wip and latest are as stated also when a removal fails.
C9_FinishedUpdate ==
  [][ (pc = "finish_aqi_update" /\ pc' # pc)
        => /\ ~last_op'.rm_failed => UpdateFinished
           /\ wip_aqi_csv' = <<>>
           /\ latest_aqi_csv' = IF update_outcome = "ok"
                                  THEN get_aqi_csv_name(update_arg)
                                  ELSE csv_before ]_vars

C9_Witness ==
  /\ pc = "sleep"
  /\ CleanFinish("finish_aqi_update")
  /\ update_outcome = "raised"
  /\ latest_aqi_csv # <<>>
  /\ CsvFiles(aqi_updates) = {latest_aqi_csv}
  /\ update_arg \in DOMAIN aqi_dir
  /\ get_aqi_csv_name(update_arg) # latest_aqi_csv

C11_NormalizationLaw ==
  \A i \in 1..Len(edge_aqi_df) :
    LET v == edge_aqi_df[i].sampled
        out == edge_aqi_df[i].aqi
    IN  /\ (v.kind # "num" \/ v.v < 95) => out = NaN
        /\ (v.kind = "num" /\ 95 <= v.v /\ v.v < 100) => out = Num(100)
        /\ (v.kind = "num" /\ v.v >= 100) => out = v

C11_Witness ==
  /\ pc = "export_aqi_map_json"
  /\ \E i, j \in 1..Len(edge_aqi_df) :
       /\ edge_aqi_df[i].sampled = Num(95) /\ edge_aqi_df[i].aqi = Num(100)
       /\ edge_aqi_df[j].sampled = Inf /\ edge_aqi_df[j].aqi = NaN

\* C12: the exported class map holds exactly one pair (way id, class) for
\* each way-grouping id whose normalised value is not null and no other
\* pair; the class is floor(aqi * 2), within 2..10 for aqi in [1.0, 5.0),
\* and never the invalid class 0.
C12_ClassMapOnePairPerWay ==
  pc = "to_csv" =>
    LET valid == { w \in WayIds :
                     \E i \in 1..Len(edge_aqi_df) :
                       /\ edge_aqi_df[i].id_way = w
                       /\ notnull(edge_aqi_df[i].aqi) }
        data == id_aqi_pairs
    IN  /\ \A k \in 1..Len(data) : data[k][1] \in valid
        /\ \A w \in valid :
             Cardinality({ k \in 1..Len(data) : data[k][1] = w }) = 1
        /\ \A k \in 1..Len(data) :
             \E i \in 1..Len(edge_aqi_df) :
               LET aqi == edge_aqi_df[i].aqi
               IN  /\ edge_aqi_df[i].id_way = data[k][1]
                   /\ notnull(aqi)
                   /\ data[k][2] = (aqi.v * 2) \div 100
                   /\ (100 <= aqi.v /\ aqi.v < 500) => data[k][2] \in 2..10
        /\ \A k \in 1..Len(data) : data[k][2] # 0

\* create_aqi_update_csv has written the update table (line 56)
TableExported == pc = "set_latest_aqi_csv"

\* the values the exported table holds for edge id_ig
ExportedAqi(id_ig) ==
  { final_edge_aqi_samples[k].aqi :
      k \in { n \in 1..Len(final_edge_aqi_samples) :
                final_edge_aqi_samples[n].id_ig = id_ig } }

\* the sampling key of an edge: its way id, or without one the string of
\* its midpoint rounded to 7 decimal digits
SamplingKey(row) ==
  IF row.id_way # NoWay THEN row.id_way
  ELSE ToString(RoundCoord(row.point_geom, 7))

RowsWithKey(df, key) == { i \in 1..Len(df) : SamplingKey(df[i]) = key }

\* C13: in the exported table two edges that share a sampling key have the
\* same normalised value, or are both absent when it is null, and it is
\* the value sampled at the one representative point kept for that key.
C13_DedupCorrectness ==
  TableExported =>
    /\ \A i, j \in 1..Len(edge_gdf) :
         SamplingKey(edge_gdf[i]) = SamplingKey(edge_gdf[j])
           => /\ ExportedAqi(edge_gdf[i].id_ig) = ExportedAqi(edge_gdf[j].id_ig)
              /\ Cardinality(ExportedAqi(edge_gdf[i].id_ig)) <= 1
    /\ \A i \in 1..Len(edge_gdf) :
         LET points == RowsWithKey(edge_aqi_df, SamplingKey(edge_gdf[i]))
         IN  /\ Cardinality(points) = 1
             /\ \A k \in points :
                  ExportedAqi(edge_gdf[i].id_ig) =
                    { v \in {get_valid_aqi_or_nan(edge_aqi_df[k].sampled)} :
                        notnull(v) }

\* the number of rows the joined table holds for edge id_ig
JoinedRows(id_ig) ==
  Cardinality({ k \in 1..Len(final_sample_df) :
                  final_sample_df[k].id_ig = id_ig })

\* C14 as stated: before the null filter the update table holds every
\* edge id of the graph exactly once, for every graph.
C14_AsStated ==
  TableExported =>
    /\ \A k \in 1..Len(final_sample_df) :
         final_sample_df[k].id_ig \in 1..Len(graph)
    /\ \A id_ig \in 1..Len(graph) : JoinedRows(id_ig) = 1

\* C14 as amended: before the null filter the update table holds exactly
\* once the id of every edge whose geometry is a line, and no other id.
C14_LineEdgesExactlyOnce ==
  TableExported =>
    LET lines == { i \in 1..Len(graph) : graph[i].geom.is_line }
    IN  /\ \A k \in 1..Len(final_sample_df) :
             final_sample_df[k].id_ig \in lines
        /\ \A id_ig \in lines : JoinedRows(id_ig) = 1

C14_Witness ==
  /\ TableExported
  /\ \E i, j \in 1..Len(graph) :
       /\ graph[i].geom.is_line /\ ~graph[j].geom.is_line
       /\ graph[i].id_way = graph[j].id_way
       /\ JoinedRows(i) = 1 /\ JoinedRows(j) = 0

\* C15: a freshness check writes a status line exactly when the status it
\* computes differs from the one the previous check of that pipeline
\* computed and stored, so that a run of ticks with the same status writes
\* one line.
C15_StatusLogDebounced ==
  [][ /\ (pc = "new_aqi_available" /\ pc' # pc)
          => LET current == get_current_aqi_tif_name(hour)
                 status == IF latest_aqi_tif = current
                             THEN <<"latest AQI data already fetched">>
                             ELSE <<"new AQI data available: ">> \o current
             IN  /\ last_op'.logged <=> (status # fetcher_status)
                 /\ fetcher_status' = status
      /\ (pc = "new_update_available" /\ pc' # pc)
          => LET name == latest_aqi_tif
                 status == IF latest_aqi_csv = get_aqi_csv_name(name)
                             THEN <<"Latest AQI update already done">>
                             ELSE <<"New AQI update available: ">> \o name
             IN  /\ last_op'.logged <=> (status # updater_status)
                 /\ updater_status' = status ]_vars

C15_Witness ==
  /\ last_op.op = "new_aqi_available"
  /\ ~last_op.logged
  /\ fetch_outcome = "raised"
  /\ fetcher_status = <<"new AQI data available: ">>
                        \o get_current_aqi_tif_name(hour)

\* C16: after finish_aqi_fetch() has run with every removal succeeding, the
\* cache holds no downloaded archive, no array file extracted from it and
\* no raster other than latest_aqi_tif.
C16_CacheCleanAfterFinish ==
  CleanFinish("finish_aqi_fetch") =>
    \A file_n \in DOMAIN aqi_dir :
      /\ ~EndsWith(file_n, ".zip")
      /\ ~EndsWith(file_n, ".nc")
      /\ EndsWith(file_n, ".tif") => file_n = latest_aqi_tif

\* the hour keys a name embeds
HourKeysIn(name) ==
  { name[i] : i \in { j \in 1..Len(name) :
                        name[j] \in { HourKey(h) : h \in Hours } } }

\* C17: within one fetch attempt the wip raster name, the remote object
\* key and the local zip name embed the same hour key, and on success
\* latest_aqi_tif is the wip_aqi_tif of the attempt.
C17_OneHourKeyPerAttempt ==
  /\ pc \in {"fetch_enfuser_data", "extract_zipped_aqi",
              "convert_aqi_nc_to_raster", "fillna_in_raster"}
       => /\ HourKeysIn(enfuser_data_key) = HourKeysIn(wip_aqi_tif)
          /\ HourKeysIn(aqi_zip_name) = HourKeysIn(wip_aqi_tif)
  /\ (pc = "finish_aqi_fetch" /\ fetch_outcome = "ok")
       => latest_aqi_tif = wip_aqi_tif

\* the offsets at which the count of nodata cells exceeds the floor
QualifyingOffsets(band) ==
  { o \in Range(Offsets) :
      SumCounts(band, {v \in BandValues : v <= NaVal + o}) > 180000 }

\* the threshold the offset loop is to end with
AdaptiveThreshold(band) ==
  IF QualifyingOffsets(band) = {} THEN NaVal + 12
  ELSE NaVal + (CHOOSE o \in QualifyingOffsets(band) :
                  \A p \in QualifyingOffsets(band) : o <= p)

\* C18: the nodata threshold of the mask is 1.0 plus the smallest offset of
\* the ascending offset sequence whose count of cells at or below
\* 1.0 + offset is strictly above 180,000, or 1.12 if there is none; cells
\* at or below the threshold are masked 0 and all others keep their value.
C18_AdaptiveNodataThreshold ==
  pc = "fillna_band_masked" =>
    /\ \A i, j \in 1..Len(Offsets) : i < j => Offsets[i] < Offsets[j]
    /\ na_offset = AdaptiveThreshold(aqi_band)
    /\ \A v \in BandValues :
         aqi_nodata_mask[v] = IF v <= AdaptiveThreshold(aqi_band) THEN 0 ELSE v

C18_Witness ==
  /\ pc = "fillna_band_masked"
  /\ aqi_band[100] = 180000
  /\ aqi_band[104] = 180001
  /\ na_offset = 104
  /\ aqi_nodata_mask[104] = 0
  /\ aqi_nodata_mask[112] = 112

\* the steps between the start of an attempt and the end of its finish_*
FetchAttemptSteps ==
  {"get_current_enfuser_key_filename", "fetch_enfuser_data",
   "extract_zipped_aqi", "convert_aqi_nc_to_raster", "fillna_in_raster",
   "finish_aqi_fetch"}

UpdateAttemptSteps ==
  {"sample_aqi_to_point_gdf", "export_aqi_map_json", "to_csv",
   "set_latest_aqi_csv", "finish_aqi_update"}

\* C19: the wip identifier of a pipeline is non-empty only between the start
\* of an attempt and the finish_* call that ends it, and both wip
\* identifiers are empty at every evaluation of the freshness checks of the
\* poll loop.
C19_WipOnlyDuringAttempt ==
  /\ wip_aqi_tif # <<>> => pc \in FetchAttemptSteps
  /\ wip_aqi_csv # <<>> => pc \in UpdateAttemptSteps
  /\ pc \in {"new_aqi_available", "new_update_available"}
       => wip_aqi_tif = <<>> /\ wip_aqi_csv = <<>>

\* C20: an edge without a way id has as sampling key the string of its
\* midpoint rounded to 7 decimal digits, any other edge its way id; the
\* deduplicated point set holds exactly one representative point per
\* distinct sampling key of the edges, so two edges without a way id and
\* with different quantized midpoints have separate points, and each point
\* is sampled as one row.
C20_SamplingKeyFallback ==
  \A i \in 1..Len(edge_gdf) :
    LET key == SamplingKey(edge_gdf[i])
    IN  /\ Cardinality(RowsWithKey(sampling_gdf, key)) = 1
        /\ edge_aqi_df # <<>>
             => Cardinality(RowsWithKey(edge_aqi_df, key)) = 1

\* C21: whenever the poll loop invokes create_aqi_update_csv(k), k is not
\* empty, the file k is in the cache directory and it is a raster the
\* nodata repair has completed on; no sampling starts before the first
\* successful fetch.
C21_OnlyRepairedRasterSampled ==
  pc = "create_aqi_update_csv" =>
    /\ latest_aqi_tif # <<>>
    /\ latest_aqi_tif \in DOMAIN aqi_dir
    /\ aqi_dir[latest_aqi_tif] = "filled"

\* C22: once latest_aqi_csv is not empty, the file it names is in the
\* output directory, completely written, in every later state; no step of a
\* fetch or sampling attempt, failed or not, and no finish_aqi_update
\* deletes or replaces it.
C22_LatestCsvStaysAvailable ==
  [][ /\ latest_aqi_csv' # <<>>
           => /\ latest_aqi_csv' \in DOMAIN aqi_updates'
              /\ aqi_updates'[latest_aqi_csv'].complete
      /\ (latest_aqi_csv # <<>> /\ latest_aqi_csv \in DOMAIN aqi_updates)
           => /\ latest_aqi_csv' # <<>>
              /\ latest_aqi_csv \in DOMAIN aqi_updates'
              /\ aqi_updates'[latest_aqi_csv] = aqi_updates[latest_aqi_csv]
              /\ (pc = "finish_aqi_update" \/ update_outcome' = "raised")
                   => latest_aqi_csv' = latest_aqi_csv ]_vars

C22_Witness ==
  /\ pc = "sleep"
  /\ last_op.op = "finish_aqi_update"
  /\ update_outcome = "raised"
  /\ latest_aqi_csv # <<>>
  /\ latest_aqi_csv \in DOMAIN aqi_updates
  /\ latest_aqi_csv # get_aqi_csv_name(update_arg)

\* C23: whenever the sampling pipeline is idle after finish_aqi_update(),
\* with wip_aqi_csv empty and latest_aqi_csv not empty, aqi_map.json in the
\* output directory was produced from the same raster as the csv that
\* latest_aqi_csv names, also after an attempt that failed part-way.
C23_PublishedOutputsAgree ==
  (pc = "sleep" /\ wip_aqi_csv = <<>> /\ latest_aqi_csv # <<>>)
    => /\ AqiMapJson \in DOMAIN aqi_updates
       /\ latest_aqi_csv \in DOMAIN aqi_updates
       /\ aqi_updates[AqiMapJson].complete
       /\ aqi_updates[AqiMapJson].from = aqi_updates[latest_aqi_csv].from

TypeOK ==
  /\ hour \in Hours
  /\ unfinished \subseteq {"fetch", "update"}
  /\ last_op.raised \in BOOLEAN

====
